---- MODULE Spec2Model ----
(***************************************************************************)
(* A model of the KZG cell-proof wrapper of src/src/lib.rs: the factory     *)
(* KzgWrapper::load_trusted_setup, the synchronous compute_cell_proofs and  *)
(* the asynchronous, parallel compute_cell_proofs_batch, together with the  *)
(* backend contract the wrapper relies on (src/src/bin/idex.rs shows the    *)
(* proof count the backend works with).                                     *)
(*                                                                          *)
(* Byte buffers are modelled by their length and by a tag for their         *)
(* content; a proof bundle by the setup and blob it was computed from and   *)
(* by the number of proofs it holds.                                        *)
(***************************************************************************)
EXTENDS Integers, Sequences, FiniteSets, TLC

(***************************************************************************)
(* Program constants                                                        *)
(***************************************************************************)
BYTES_PER_G1_POINT == 48

BYTES_PER_G2_POINT == 96

\* The protocol blob size Blob::from_bytes insists on.
BYTES_PER_BLOB == 131072

\* `let cell_count = 32;` : the number of KzgProof elements the wrapper allocates.
cell_count == 32

\* C_KZG_RET::C_KZG_OK
C_KZG_OK == 0

(***************************************************************************)
(* Bounds of the model                                                      *)
(***************************************************************************)
\* Longest batch submitted.
MaxBlobs == 2

\* Threads of the rayon pool.
PoolSize == 2

\* The calls of compute_cell_proofs_batch the model follows: Spec follows the
\* first together with a call of compute_cell_proofs, SpecConcurrent follows
\* two batches in flight at the same time.
Batches == {1, 2}

FirstBatch == {1}

\* CELLS_PER_EXT_BLOB of the linked backend: the number of proofs it writes for
\* one blob.  The wrapper never reads it, so the model covers a backend that
\* agrees with the wrapper's 32 and the EIP-7594 one that writes 128.
BackendCellCounts == {32, 128}

\* Lengths of the setup buffers handed to the factory.
G1Lens == {0, 47, 48, 96}

G2Lens == {95, 96, 192}

\* Buffers handed to the proof operations: two wrong lengths, and the right
\* length with two distinct canonical contents and one that is no sequence of
\* canonical field elements.
WrongLens == {100, BYTES_PER_BLOB + 1}

Contents == {"c1", "c2", "bad"}

BlobInputs ==
    {[len |-> l, content |-> "c1"] : l \in WrongLens}
        \cup {[len |-> BYTES_PER_BLOB, content |-> c] : c \in Contents}

RECURSIVE SeqsUpTo(_, _)
SeqsUpTo(S, n) ==
    IF n = 0 THEN {<<>>}
    ELSE LET shorter == SeqsUpTo(S, n - 1)
         IN shorter \cup {Append(s, x) : s \in {t \in shorter : Len(t) = n - 1}, x \in S}

BatchInputs == SeqsUpTo(BlobInputs, MaxBlobs)

\* The batches submitted side by side: a wrong length, a good and a bad content.
ConcurrentBlobs ==
    {[len |-> 100, content |-> "c1"], [len |-> BYTES_PER_BLOB, content |-> "c1"],
     [len |-> BYTES_PER_BLOB, content |-> "bad"]}

\* Each of the two batches holds at most two buffers: four blobs for the pool.
ConcurrentInputs == SeqsUpTo(ConcurrentBlobs, 2)

VARIABLES
    cellsPerExtBlob,  \* the backend's proofs-per-blob count (fixed by the build)
    crashed,          \* the process was brought down by memory corruption
    ld,               \* the call of the factory load_trusted_setup
    wrapper,          \* KzgWrapper.settings, "none" while no wrapper exists
    sc,               \* the call of compute_cell_proofs, on the dispatch thread
    bpc,              \* per batch: position of compute_cell_proofs_batch
    blobs_bytes,      \* per batch: the argument blobs_bytes
    settings,         \* per batch: the clone of self.settings moved into the task
    validated,        \* per batch: how many buffers Blob::from_bytes has accepted
    item,             \* per batch: the state of each blob's parallel map closure
    closure,          \* per batch: what the spawn_blocking closure ended with
    delivered         \* per batch: the outcomes handed to the caller, in order

vars == <<cellsPerExtBlob, crashed, ld, wrapper, sc, bpc, blobs_bytes, settings,
          validated, item, closure, delivered>>

loadVars == <<ld, wrapper>>

singleVars == <<sc>>

batchVars == <<bpc, blobs_bytes, settings, validated, item, closure, delivered>>

(***************************************************************************)
(* napi Result values                                                       *)
(***************************************************************************)
\* A value carries `data`; an error carries its napi status and what its message
\* text says: the context, the backend status `code`, the `detail` the
\* underlying error prints (`{:?}`) and the batch positions (`index`) it names.
NoResult ==
    [kind |-> "None", status |-> "", context |-> "", code |-> 0, detail |-> <<>>,
     index |-> <<>>, data |-> <<>>]

Ok(data) ==
    [kind |-> "Ok", status |-> "", context |-> "", code |-> 0, detail |-> <<>>,
     index |-> <<>>, data |-> data]

\* `Error::new(status, format!(..))`: no message of the wrapper names a position.
Err(status, context, code) ==
    [kind |-> "Err", status |-> status, context |-> context, code |-> code,
     detail |-> <<>>, index |-> <<>>, data |-> <<>>]

\* The status dropped: every return of the backend taken for a success.
check_c_kzg_ret_swallow(ret, context) == Ok(<<>>)

\* check_c_kzg_ret: Ok(()) for status 0, otherwise a GenericFailure naming the
\* context and the status.
check_c_kzg_ret(ret, context) ==
    IF ret = C_KZG_OK THEN Ok(<<>>) ELSE Err("GenericFailure", context, ret)

(***************************************************************************)
(* The factory KzgWrapper::load_trusted_setup                               *)
(***************************************************************************)
num_g1_monomial(g1m) == g1m \div BYTES_PER_G1_POINT

num_g2_monomial(g2m) == g2m \div BYTES_PER_G2_POINT

\* The size check with && written for ||: it rejects only when both lengths are wrong.
SetupSizesOk_and(g1m, g1l, g2m) ==
    ~ (g1m % BYTES_PER_G1_POINT # 0 /\ g2m % BYTES_PER_G2_POINT # 0)

\* The size check that precedes the backend call.
SetupSizesOk(g1m, g1l, g2m) ==
    ~ (g1m % BYTES_PER_G1_POINT # 0 \/ g2m % BYTES_PER_G2_POINT # 0)

\* The eight arguments of the backend's load_trusted_setup, as the wrapper
\* fills them in (pointers are modelled by the length of the buffer behind them).
BackendLoadArgs(g1m, g1l, g2m) ==
    [g1_monomial_len |-> g1m,
     num_g1_monomial |-> num_g1_monomial(g1m),
     g1_lagrange_len |-> g1l,
     num_g1_lagrange |-> num_g1_monomial(g1m),
     g2_monomial_len |-> g2m,
     num_g2_monomial |-> num_g2_monomial(g2m),
     num_g2_lagrange |-> num_g2_monomial(g2m)]

NoArgs ==
    [g1_monomial_len |-> 0, num_g1_monomial |-> 0, g1_lagrange_len |-> 0,
     num_g1_lagrange |-> 0, g2_monomial_len |-> 0, num_g2_monomial |-> 0,
     num_g2_lagrange |-> 0]

\* The backend reads num * size bytes behind each pointer: it stays inside the
\* buffers exactly when every count fits the buffer it is reported for.
LoadReadsInBounds(a) ==
    /\ a.num_g1_monomial * BYTES_PER_G1_POINT <= a.g1_monomial_len
    /\ a.num_g1_lagrange * BYTES_PER_G1_POINT <= a.g1_lagrange_len
    /\ a.num_g2_monomial * BYTES_PER_G2_POINT <= a.g2_monomial_len

\* The backend's verdict on buffers it can read: status 0 for well-formed
\* points, C_KZG_BADARGS (1) otherwise.
BackendLoadRet(pointsValid) == IF pointsValid THEN C_KZG_OK ELSE 1

load_trusted_setup_check ==
    /\ ~crashed
    /\ ld.pc = "called"
    /\ IF SetupSizesOk(ld.g1m, ld.g1l, ld.g2m)
       THEN ld' = [ld EXCEPT !.pc = "backend",
                             !.backendCalls = @ + 1,
                             !.args = BackendLoadArgs(ld.g1m, ld.g1l, ld.g2m)]
       ELSE ld' = [ld EXCEPT !.pc = "returned",
                             !.result = Err("InvalidArg", "G1/G2 point byte length", 0)]
    /\ UNCHANGED <<cellsPerExtBlob, crashed, wrapper, singleVars, batchVars>>

\* The backend call returns its status (kept in `ret`) and
\* `check_c_kzg_ret(ret, ..)?; Ok(Self { settings })` runs.  A read past the end of a buffer is undefined behaviour: the backend
\* may take the bytes it finds for points, reject them, or fault.
load_trusted_setup_return ==
    /\ ~crashed
    /\ ld.pc = "backend"
    /\ \E out \in {"defined", "accepts", "rejects", "faults"} :
        /\ (out = "defined") <=> LoadReadsInBounds(ld.args)
        /\ IF out = "faults"
           THEN /\ crashed' = TRUE
                /\ UNCHANGED <<ld, wrapper>>
           ELSE LET ret == CASE out = "defined" -> BackendLoadRet(ld.pointsValid)
                             [] out = "accepts" -> C_KZG_OK
                             [] OTHER -> 1
                    chk == check_c_kzg_ret(ret, "load trusted setup")
                    loaded == IF out = "defined" THEN "setup" ELSE "garbage"
                IN /\ IF chk.kind = "Err"
                      THEN /\ ld' = [ld EXCEPT !.pc = "returned", !.ret = <<ret>>,
                                                 !.result = chk]
                           /\ UNCHANGED wrapper
                      ELSE /\ ld' = [ld EXCEPT !.pc = "returned", !.ret = <<ret>>,
                                                 !.result = Ok(<<loaded>>)]
                           /\ wrapper' = loaded
                   /\ UNCHANGED crashed
    /\ UNCHANGED <<cellsPerExtBlob, singleVars, batchVars>>

(***************************************************************************)
(* Blobs, proofs and the backend's proof routine                            *)
(***************************************************************************)
\* Blob::from_bytes: a Blob of exactly BYTES_PER_BLOB bytes, or an error that
\* tells the length it was given.
Blob_from_bytes(bytes) ==
    IF bytes.len = BYTES_PER_BLOB
    THEN Ok(<<bytes>>)
    ELSE [Err("GenericFailure", "Blob conversion failed", 0) EXCEPT !.detail = <<bytes.len>>]

\* Status of the backend's compute_cells_and_kzg_proofs on a blob:
\* C_KZG_BADARGS (1) when the bytes are no canonical field elements.
BackendProofRet(blob) == IF blob.content = "bad" THEN 1 ELSE C_KZG_OK

\* `proofs.iter().map(proof_to_hex).collect()`: the hex text of the first
\* `count` proofs of `blob` under `setup`.
proofs_to_hex(setup, blob, count) == [setup |-> setup, blob |-> blob.content, count |-> count]

\* What the same expression yields when the memory behind it was overwritten.
GarbageBundle(count) == [setup |-> "garbage", blob |-> "garbage", count |-> count]

\* The backend writes cellsPerExtBlob proofs behind proofs_out, a buffer of
\* `buf` elements: more than `buf` is a write past the end of the buffer.
WritesPastBuffer(buf) == cellsPerExtBlob > buf

\* The places of a trusted setup in memory that a write past a buffer of the
\* heap can reach: the wrapper's own settings and the clones of the batches
\* in flight.
SettingsInReach ==
    {<<"wrapper", 0>>} \cup {<<"clone", c>> : c \in {d \in Batches : bpc[d] # "idle"}}

\* KzgWrapper.settings after the backend call of a thread returned; `hit` is
\* the place the call overwrote.
settings_after(hit) == IF hit = <<"wrapper", 0>> THEN "overwritten" ELSE wrapper

\* The clones of the batches after the same call.
clones_after(hit) ==
    [c \in Batches |-> IF hit = <<"clone", c>> THEN "overwritten" ELSE settings[c]]

\* The buffer reinterpreted as a Blob without the checked conversion.
convert_unchecked(bytes) == Ok(<<bytes>>)

\* `Blob::from_bytes(&bytes).map_err(|e| Error::new(GenericFailure, ..))`
convert(bytes) == Blob_from_bytes(bytes)

\* `check_c_kzg_ret(ret, context)?; Ok(proofs.iter().map(proof_to_hex).collect())`:
\* the value of one blob's computation once the backend returned `ret`.
proofs_result(ret, context, setup, blob, buf) ==
    LET chk == check_c_kzg_ret(ret, context)
    IN IF chk.kind = "Err" THEN chk ELSE Ok(<<proofs_to_hex(setup, blob, buf)>>)

\* A backend proof call: the thread running it, the buffer of `buf` proofs
\* handed to it, and `calls`, how often the backend was entered for the blob.
NoCall == [st |-> "pending", thread |-> "", buf |-> 0, calls |-> 0, res |-> NoResult]

Running(thread, buf) ==
    [st |-> "running", thread |-> thread, buf |-> buf, calls |-> 1, res |-> NoResult]

\* The backend is entered for the blob whose call record was `c`.
Enter(c, thread, buf) == [Running(thread, buf) EXCEPT !.calls = c.calls + 1]

Done(c, res) == [c EXCEPT !.st = "done", !.res = res]

(***************************************************************************)
(* compute_cell_proofs: synchronous, on the thread that calls it            *)
(***************************************************************************)
\* The dispatch thread is inside compute_cell_proofs' backend call.
DispatchBusy == sc.pc = "backend"

compute_cell_proofs_call(bytes) ==
    /\ ~crashed
    /\ wrapper # "none"
    /\ sc.pc = "idle"
    /\ LET conv == convert(bytes)
       IN IF conv.kind = "Err"
          THEN sc' = [sc EXCEPT !.pc = "returned", !.bytes = bytes, !.result = conv]
          ELSE sc' = [sc EXCEPT !.pc = "backend", !.bytes = bytes,
                                !.call = Enter(sc.call, "dispatch", cell_count)]
    /\ UNCHANGED <<cellsPerExtBlob, crashed, loadVars, batchVars>>

\* The backend returns.  Having written past the end of `proofs` it has
\* overwritten memory it does not own: the call may still go on as if nothing
\* happened, return overwritten text, leave a trusted setup overwritten, or
\* bring the process down.
compute_cell_proofs_return ==
    /\ ~crashed
    /\ sc.pc = "backend"
    /\ LET res == proofs_result(BackendProofRet(sc.bytes), "compute proofs",
                                wrapper, sc.bytes, sc.call.buf)
       IN \/ /\ sc' = [sc EXCEPT !.pc = "returned", !.call = Done(@, res), !.result = res]
             /\ UNCHANGED <<crashed, wrapper, settings>>
          \/ /\ WritesPastBuffer(sc.call.buf)
             /\ res.kind = "Ok"
             /\ LET bad == Ok(<<GarbageBundle(sc.call.buf)>>)
                IN sc' = [sc EXCEPT !.pc = "returned", !.call = Done(@, bad), !.result = bad]
             /\ UNCHANGED <<crashed, wrapper, settings>>
          \/ /\ WritesPastBuffer(sc.call.buf)
             /\ \E hit \in SettingsInReach :
                   /\ wrapper' = settings_after(hit)
                   /\ settings' = clones_after(hit)
             /\ sc' = [sc EXCEPT !.pc = "returned", !.call = Done(@, res), !.result = res]
             /\ UNCHANGED crashed
          \/ /\ WritesPastBuffer(sc.call.buf)
             /\ crashed' = TRUE
             /\ UNCHANGED <<sc, wrapper, settings>>
    /\ UNCHANGED <<cellsPerExtBlob, ld, bpc, blobs_bytes, validated, item, closure,
                   delivered>>

(***************************************************************************)
(* compute_cell_proofs_batch                                                *)
(***************************************************************************)
N(b) == Len(blobs_bytes[b])

\* Backend proof calls running on the rayon pool, over all batches.
RunningItems == {<<b, i>> \in Batches \X (1..MaxBlobs + 1) :
                    i <= Len(item[b]) /\ item[b][i].st = "running"}

\* A thread spawned for every blob instead of the pool: a blob never waits.
WorkerSpawned == TRUE

\* `blobs.par_iter()`: the blobs are run by the threads of the rayon pool, so
\* a blob is taken only when one of them is idle.
WorkerFree == Cardinality(RunningItems) < PoolSize

\* `self.settings.clone()` and `task::spawn_blocking(move || ..)`: the
\* dispatch thread hands the work to a blocking thread and awaits the handle.
Submit(b, bs) ==
    /\ ~crashed
    /\ wrapper # "none"
    /\ ~DispatchBusy
    /\ bpc[b] = "idle"
    /\ bpc' = [bpc EXCEPT ![b] = "validating"]
    /\ blobs_bytes' = [blobs_bytes EXCEPT ![b] = bs]
    /\ settings' = [settings EXCEPT ![b] = wrapper]
    /\ item' = [item EXCEPT ![b] = [i \in 1..Len(bs) |-> NoCall]]
    /\ UNCHANGED <<cellsPerExtBlob, crashed, loadVars, singleVars, validated, closure,
                   delivered>>

\* The buffers taken from the back (`.rev()`): the last one not yet converted.
LastBuffer(b) == N(b) - validated[b]

\* `blobs_bytes.into_iter()`: the buffers are taken front to back, so the next
\* one to convert follows those already accepted.
NextBuffer(b) == validated[b] + 1

\* One step of `blobs_bytes.into_iter().map(|b| Blob::from_bytes(&b)..).collect()`
\* followed by `blobs?`: the next buffer is converted; the first error ends
\* the closure with that error.
Validate(b) ==
    /\ ~crashed
    /\ bpc[b] = "validating"
    /\ validated[b] < N(b)
    /\ LET conv == convert(blobs_bytes[b][NextBuffer(b)])
       IN IF conv.kind = "Err"
          THEN /\ closure' = [closure EXCEPT ![b] = conv]
               /\ bpc' = [bpc EXCEPT ![b] = "finished"]
               /\ UNCHANGED validated
          ELSE /\ validated' = [validated EXCEPT ![b] = @ + 1]
               /\ UNCHANGED <<closure, bpc>>
    /\ UNCHANGED <<cellsPerExtBlob, crashed, loadVars, singleVars, blobs_bytes, settings,
                   item, delivered>>

\* The conversion done lazily: the parallel map begins once the first buffer
\* has been converted.
ConversionBegun(b) == Len(blobs_bytes[b]) = 0 \/ validated[b] >= 1

\* `let blobs = blobs?;` with every buffer converted: the parallel map begins.
\* A blob may enter the parallel map once the conversion pass is over.
ConversionPassed(b) == validated[b] = N(b)

StartParallel(b) ==
    /\ ~crashed
    /\ bpc[b] = "validating"
    /\ ConversionPassed(b)
    /\ bpc' = [bpc EXCEPT ![b] = "parallel"]
    /\ UNCHANGED <<cellsPerExtBlob, crashed, loadVars, singleVars, blobs_bytes, settings,
                   validated, item, closure, delivered>>

\* A rayon worker takes blob i, allocates `vec![KzgProof::default(); cell_count]`
\* and enters the backend call.
StartItem(b, i) ==
    /\ ~crashed
    /\ bpc[b] = "parallel"
    /\ i \in 1..N(b)
    /\ item[b][i].st = "pending"
    /\ WorkerFree
    /\ item' = [item EXCEPT ![b][i] = Enter(@, "rayon", cell_count)]
    /\ UNCHANGED <<cellsPerExtBlob, crashed, loadVars, singleVars, bpc, blobs_bytes,
                   settings, validated, closure, delivered>>

\* The backend returns to the worker (see compute_cell_proofs_return for the
\* outcomes of a write past the buffer).
FinishItem(b, i) ==
    /\ ~crashed
    /\ bpc[b] = "parallel"
    /\ i \in 1..N(b)
    /\ item[b][i].st = "running"
    /\ LET blob == blobs_bytes[b][i]
           res == proofs_result(BackendProofRet(blob), "compute proofs batch",
                                settings[b], blob, item[b][i].buf)
       IN \/ /\ item' = [item EXCEPT ![b][i] = Done(@, res)]
             /\ UNCHANGED <<crashed, wrapper, settings>>
          \/ /\ WritesPastBuffer(item[b][i].buf)
             /\ res.kind = "Ok"
             /\ item' = [item EXCEPT ![b][i] = Done(@, Ok(<<GarbageBundle(item[b][i].buf)>>))]
             /\ UNCHANGED <<crashed, wrapper, settings>>
          \/ /\ WritesPastBuffer(item[b][i].buf)
             /\ \E hit \in SettingsInReach :
                   /\ wrapper' = settings_after(hit)
                   /\ settings' = clones_after(hit)
             /\ item' = [item EXCEPT ![b][i] = Done(@, res)]
             /\ UNCHANGED crashed
          \/ /\ WritesPastBuffer(item[b][i].buf)
             /\ crashed' = TRUE
             /\ UNCHANGED <<item, wrapper, settings>>
    /\ UNCHANGED <<cellsPerExtBlob, ld, singleVars, bpc, blobs_bytes, validated, closure,
                   delivered>>

\* The closure of blob i panics while it runs on the worker.
PanicItem(b, i) ==
    /\ ~crashed
    /\ bpc[b] = "parallel"
    /\ i \in 1..N(b)
    /\ item[b][i].st = "running"
    /\ item' = [item EXCEPT ![b][i].st = "panicked"]
    /\ UNCHANGED <<cellsPerExtBlob, crashed, loadVars, singleVars, bpc, blobs_bytes,
                   settings, validated, closure, delivered>>

\* Some blob of the batch has already failed.
Failed(items) ==
    \E j \in 1..Len(items) :
        items[j].st = "panicked" \/ (items[j].st = "done" /\ items[j].res.kind = "Err")

\* collect::<Result<_>>() stops taking blobs once one has failed: a blob not
\* yet started may be dropped unprocessed.
SkipItem(b, i) ==
    /\ ~crashed
    /\ bpc[b] = "parallel"
    /\ i \in 1..N(b)
    /\ item[b][i].st = "pending"
    /\ Failed(item[b])
    /\ item' = [item EXCEPT ![b][i].st = "skipped"]
    /\ UNCHANGED <<cellsPerExtBlob, crashed, loadVars, singleVars, bpc, blobs_bytes,
                   settings, validated, closure, delivered>>

Panicked ==
    [kind |-> "Panic", status |-> "", context |-> "", code |-> 0, detail |-> <<>>,
     index |-> <<>>, data |-> <<>>]

\* The bundles of the blobs, in input order.
ordered_results(items) == [i \in 1..Len(items) |-> items[i].res.data[1]]

\* `.collect::<Result<Vec<Vec<String>>>>()?; Ok(results)`: a panic of a worker
\* is resumed in the closure; otherwise one of the errors, if there is one;
\* otherwise the bundles in input order.
collect(items) ==
    IF \E j \in 1..Len(items) : items[j].st = "panicked"
    THEN {Panicked}
    ELSE IF Failed(items)
    THEN {items[j].res : j \in {k \in 1..Len(items) :
                                  items[k].st = "done" /\ items[k].res.kind = "Err"}}
    ELSE {Ok(ordered_results(items))}

Collect(b) ==
    /\ ~crashed
    /\ bpc[b] = "parallel"
    /\ \A i \in 1..N(b) : item[b][i].st \in {"done", "skipped", "panicked"}
    /\ \E r \in collect(item[b]) : closure' = [closure EXCEPT ![b] = r]
    /\ bpc' = [bpc EXCEPT ![b] = "finished"]
    /\ UNCHANGED <<cellsPerExtBlob, crashed, loadVars, singleVars, blobs_bytes, settings,
                   validated, item, delivered>>

\* `handle.await.map_err(|e| Error::new(GenericFailure, ..))?`: a JoinError (the
\* closure panicked) becomes an error, anything else is the closure's result.
await_handle(r) ==
    IF r.kind = "Panic" THEN Err("GenericFailure", "async task failed", 0) ELSE r

\* The dispatch thread resumes the awaiting call and hands its value to the caller.
Deliver(b) ==
    /\ ~crashed
    /\ ~DispatchBusy
    /\ bpc[b] = "finished"
    /\ delivered' = [delivered EXCEPT ![b] = Append(@, await_handle(closure[b]))]
    /\ bpc' = [bpc EXCEPT ![b] = "delivered"]
    /\ UNCHANGED <<cellsPerExtBlob, crashed, loadVars, singleVars, blobs_bytes, settings,
                   validated, item, closure>>

(***************************************************************************)
(* Specifications                                                           *)
(***************************************************************************)
IdleSingle == [pc |-> "idle", bytes |-> [len |-> 0, content |-> ""], call |-> NoCall,
               result |-> NoResult]

IdleBatches ==
    /\ bpc = [b \in Batches |-> "idle"]
    /\ blobs_bytes = [b \in Batches |-> <<>>]
    /\ settings = [b \in Batches |-> "none"]
    /\ validated = [b \in Batches |-> 0]
    /\ item = [b \in Batches |-> <<>>]
    /\ closure = [b \in Batches |-> NoResult]
    /\ delivered = [b \in Batches |-> <<>>]

\* The factory has been called with some buffers.
InitLoad ==
    /\ cellsPerExtBlob \in BackendCellCounts
    /\ crashed = FALSE
    /\ \E g1m \in G1Lens, g1l \in G1Lens, g2m \in G2Lens, pv \in BOOLEAN :
          ld = [pc |-> "called", g1m |-> g1m, g1l |-> g1l, g2m |-> g2m,
                pointsValid |-> pv, backendCalls |-> 0, args |-> NoArgs,
                ret |-> <<>>, result |-> NoResult]
    /\ wrapper = "none"
    /\ sc = IdleSingle
    /\ IdleBatches

NextLoad == load_trusted_setup_check \/ load_trusted_setup_return

SpecLoad == InitLoad /\ [][NextLoad]_vars

\* A wrapper has been constructed from a well-formed setup.
Init ==
    /\ cellsPerExtBlob \in BackendCellCounts
    /\ crashed = FALSE
    /\ ld = [pc |-> "returned", g1m |-> 96, g1l |-> 96, g2m |-> 96,
             pointsValid |-> TRUE, backendCalls |-> 1, args |-> BackendLoadArgs(96, 96, 96),
             ret |-> <<C_KZG_OK>>, result |-> Ok(<<"setup">>)]
    /\ wrapper = "setup"
    /\ sc = IdleSingle
    /\ IdleBatches

Next ==
    \/ \E bytes \in BlobInputs : compute_cell_proofs_call(bytes)
    \/ compute_cell_proofs_return
    \/ \E b \in FirstBatch, bs \in BatchInputs : Submit(b, bs)
    \/ \E b \in FirstBatch : Validate(b)
    \/ \E b \in FirstBatch : StartParallel(b)
    \/ \E b \in FirstBatch, i \in 1..MaxBlobs : StartItem(b, i)
    \/ \E b \in FirstBatch, i \in 1..MaxBlobs : FinishItem(b, i)
    \/ \E b \in FirstBatch, i \in 1..MaxBlobs : PanicItem(b, i)
    \/ \E b \in FirstBatch, i \in 1..MaxBlobs : SkipItem(b, i)
    \/ \E b \in FirstBatch : Collect(b)
    \/ \E b \in FirstBatch : Deliver(b)

Spec == Init /\ [][Next]_vars

\* Two batches submitted on the same wrapper, their steps interleaved.
NextConcurrent ==
    \/ \E b \in Batches, bs \in ConcurrentInputs : Submit(b, bs)
    \/ \E b \in Batches : Validate(b)
    \/ \E b \in Batches : StartParallel(b)
    \/ \E b \in Batches, i \in 1..MaxBlobs : StartItem(b, i)
    \/ \E b \in Batches, i \in 1..MaxBlobs : FinishItem(b, i)
    \/ \E b \in Batches, i \in 1..MaxBlobs : PanicItem(b, i)
    \/ \E b \in Batches, i \in 1..MaxBlobs : SkipItem(b, i)
    \/ \E b \in Batches : Collect(b)
    \/ \E b \in Batches : Deliver(b)

SpecConcurrent == Init /\ [][NextConcurrent]_vars

\* The scheduler lets every thread that can take a step take it: the blocking
\* thread, the rayon workers and the dispatch thread all make progress.  Calls
\* by the caller, panics and dropped blobs are not forced.
Fairness ==
    /\ WF_vars(compute_cell_proofs_return)
    /\ \A b \in Batches :
        /\ WF_vars(Validate(b))
        /\ WF_vars(StartParallel(b))
        /\ WF_vars(Collect(b))
        /\ WF_vars(Deliver(b))
        /\ \A i \in 1..MaxBlobs : WF_vars(StartItem(b, i)) /\ WF_vars(FinishItem(b, i))

FairSpec == Spec /\ Fairness

(***************************************************************************)
(* Vocabulary of the properties                                             *)
(***************************************************************************)
\* The backend proof calls begun so far: the one of compute_cell_proofs and
\* those of the batches' blobs, each with the bytes handed to the backend.
BackendCalls ==
    {[call |-> sc.call, bytes |-> sc.bytes] : x \in {y \in {1} : sc.call.st # "pending"}}
        \cup {[call |-> item[b][i], bytes |-> blobs_bytes[b][i]] :
                <<b, i>> \in {<<c, j>> \in Batches \X (1..MaxBlobs + 1) :
                                j <= Len(item[c]) /\ item[c][j].st \notin {"pending", "skipped"}}}

\* No blob of batch b has been handed to a worker.
NothingStarted(b) == \A i \in 1..Len(item[b]) : item[b][i].st = "pending"

Submitted(b) == bpc[b] # "idle"

WrongLength(bytes) == bytes.len # BYTES_PER_BLOB

\* What compute_cell_proofs returns for `bytes` when every step of it is defined.
SingleResult(bytes) ==
    IF convert(bytes).kind = "Err" THEN convert(bytes)
    ELSE proofs_result(BackendProofRet(bytes), "compute proofs", wrapper, bytes, cell_count)

(***************************************************************************)
(* Properties                                                               *)
(***************************************************************************)
\* C1: whenever a batch completes successfully, the i-th element of the list
\* handed to the caller is the proof bundle of the i-th input blob under the
\* wrapper's setup, whatever the order in which the workers ran and finished.
C1_ResultOrderMatchesInput ==
    \A b \in Batches : \A k \in 1..Len(delivered[b]) :
        delivered[b][k].kind = "Ok" =>
            /\ Len(delivered[b][k].data) = N(b)
            /\ \A i \in 1..N(b) :
                /\ delivered[b][k].data[i].blob = blobs_bytes[b][i].content
                /\ delivered[b][k].data[i].setup = wrapper

\* C2: what a batch hands to the caller is either a list of exactly N
\* complete proof bundles (each holding every proof the backend computes for a
\* blob) or a single error carrying no bundle.
CompleteBundle(p) == p.setup # "garbage" /\ p.count = cellsPerExtBlob

C2_AllOrNothing ==
    \A b \in Batches : \A k \in 1..Len(delivered[b]) :
        LET o == delivered[b][k]
        IN \/ /\ o.kind = "Ok"
              /\ Len(o.data) = N(b)
              /\ \A i \in 1..N(b) : CompleteBundle(o.data[i])
           \/ /\ o.kind = "Err"
              /\ o.data = <<>>

\* C3: in a batch no backend proof call starts before every buffer of the
\* batch has been converted successfully, and a batch holding a buffer that
\* fails conversion ends in an error without any backend proof call.
C3_ValidationIsPrePass ==
    \A b \in Batches :
        /\ ~NothingStarted(b) =>
              /\ validated[b] = N(b)
              /\ \A i \in 1..N(b) : Blob_from_bytes(blobs_bytes[b][i]).kind = "Ok"
        /\ (\E i \in 1..N(b) : Blob_from_bytes(blobs_bytes[b][i]).kind = "Err") =>
              /\ NothingStarted(b)
              /\ bpc[b] \in {"validating", "finished", "delivered"}
              /\ bpc[b] \in {"finished", "delivered"} => closure[b].kind = "Err"

\* C3 witness: a batch whose first buffer is valid and whose second is not has
\* been answered with an error, and no blob of it was handed to a worker.
C3_Witness ==
    \E b \in Batches :
        /\ bpc[b] = "delivered"
        /\ N(b) = 2
        /\ ~WrongLength(blobs_bytes[b][1])
        /\ WrongLength(blobs_bytes[b][2])
        /\ validated[b] = 1
        /\ delivered[b][1].kind = "Err"
        /\ NothingStarted(b)

\* C4: every backend proof call is handed a proofs buffer holding exactly the
\* number of proofs the backend writes for one blob (a call with any other
\* buffer never proceeds).
C4_ProofBufferFitsBackend ==
    \A c \in BackendCalls : c.call.buf = cellsPerExtBlob

\* C5: the factory calls the backend only when g1_lagrange's length is a
\* multiple of 48 and holds as many elements as g1_monomial (otherwise it
\* returns an error), and the count it reports for g1_lagrange never exceeds
\* the elements the buffer holds.
C5_LagrangeChecked ==
    /\ (ld.g1l % 48 # 0 \/ ld.g1l \div 48 # ld.g1m \div 48) =>
          /\ ld.backendCalls = 0
          /\ ld.pc = "returned" => ld.result.kind = "Err"
    /\ ld.backendCalls > 0 => ld.args.num_g1_lagrange * 48 <= ld.args.g1_lagrange_len

\* C6: when g1_monomial's length is no multiple of 48 or g2_monomial's no
\* multiple of 96, the factory returns an error, constructs no wrapper and
\* never calls the backend.
C6_MonomialSizesChecked ==
    (ld.g1m % 48 # 0 \/ ld.g2m % 96 # 0) =>
        /\ ld.backendCalls = 0
        /\ ld.pc \in {"called", "returned"}
        /\ wrapper = "none"
        /\ ld.pc = "returned" => ld.result.kind = "Err"

\* C6 witness: the factory has returned an error for a g1_monomial of 47
\* bytes without calling the backend.
C6_Witness ==
    /\ ld.pc = "returned"
    /\ ld.g1m % 48 # 0
    /\ ld.g2m % 96 = 0
    /\ ld.result.kind = "Err"
    /\ ld.backendCalls = 0

\* C7: a buffer whose length is not 131072 makes compute_cell_proofs and
\* compute_cell_proofs_batch return an error, and no backend proof call is
\* ever made on such a buffer.
C7_LengthCheckedBeforeBackend ==
    /\ \A c \in BackendCalls : c.bytes.len = 131072
    /\ (sc.pc # "idle" /\ sc.bytes.len # 131072) =>
          /\ sc.pc = "returned"
          /\ sc.result.kind = "Err"
    /\ \A b \in Batches :
          (\E i \in 1..N(b) : blobs_bytes[b][i].len # 131072) =>
              /\ bpc[b] \in {"validating", "finished", "delivered"}
              /\ bpc[b] \in {"finished", "delivered"} => closure[b].kind = "Err"
              /\ \A k \in 1..Len(delivered[b]) : delivered[b][k].kind = "Err"

\* C7 witness: both operations have answered a buffer of the wrong length
\* with an error, the batch one after a valid first buffer.
C7_Witness ==
    /\ sc.pc = "returned"
    /\ sc.bytes.len = 131073
    /\ sc.result.kind = "Err"
    /\ \E b \in Batches :
          /\ N(b) = 2
          /\ blobs_bytes[b][1].len = 131072
          /\ blobs_bytes[b][2].len = 100
          /\ Len(delivered[b]) = 1
          /\ delivered[b][1].kind = "Err"

\* C8: no backend proof call of compute_cell_proofs or of
\* compute_cell_proofs_batch runs on the dispatch thread, which is never held
\* by a proof computation.
C8_DispatchNeverComputes ==
    /\ \A c \in BackendCalls : c.call.thread # "dispatch"
    /\ ~DispatchBusy

\* C9: a batch never hands the caller more than one outcome, and every
\* submitted batch eventually hands it exactly one, Ok or Err (a panic of a
\* worker included).
C9_ExactlyOneOutcome ==
    /\ \A b \in Batches : [](Len(delivered[b]) <= 1)
    /\ \A b \in Batches :
          Submitted(b) ~> (Len(delivered[b]) = 1 /\ delivered[b][1].kind \in {"Ok", "Err"})

\* C10: a batch of valid blobs that succeeds returns exactly the list of what
\* compute_cell_proofs returns for each blob in input order, and one that
\* fails with a backend status fails on a blob on which compute_cell_proofs
\* fails with that status.
C10_BatchEqualsSequential ==
    \A b \in Batches : \A k \in 1..Len(delivered[b]) :
        LET o == delivered[b][k]
        IN /\ o.kind = "Ok" =>
                /\ \A i \in 1..N(b) : SingleResult(blobs_bytes[b][i]).kind = "Ok"
                /\ o.data = [i \in 1..N(b) |-> SingleResult(blobs_bytes[b][i]).data[1]]
           /\ (o.kind = "Err" /\ o.code # 0) =>
                \E i \in 1..N(b) :
                    /\ SingleResult(blobs_bytes[b][i]).kind = "Err"
                    /\ SingleResult(blobs_bytes[b][i]).code = o.code

\* C11: when exactly one buffer of a batch has the wrong length, at position i
\* (counted from 0), what the caller receives is an error whose text names
\* position i, and no proof bundle.
C11_ErrorNamesBlobIndex ==
    \A b \in Batches : \A k \in 1..Len(delivered[b]) : \A i \in 1..N(b) :
        (/\ WrongLength(blobs_bytes[b][i])
         /\ \A j \in 1..N(b) : j # i => ~WrongLength(blobs_bytes[b][j])) =>
            /\ delivered[b][k].kind = "Err"
            /\ delivered[b][k].data = <<>>
            /\ delivered[b][k].index = <<i - 1>>

\* The statuses the backend returned for the blobs of batch b it has failed on.
FailedStatuses(b) ==
    {BackendProofRet(blobs_bytes[b][i]) :
        i \in {j \in 1..N(b) : item[b][j].st = "done"
                                 /\ BackendProofRet(blobs_bytes[b][j]) # C_KZG_OK}}

SomeonePanicked(b) == \E i \in 1..N(b) : item[b][i].st = "panicked"

\* The backend is entered at most once for a blob, and a non-zero status makes
\* compute_cell_proofs return an error carrying it and the context.
NoRetryAndSingleCarriesStatus ==
    /\ \A c \in BackendCalls : c.call.calls <= 1
    /\ (sc.call.st = "done" /\ BackendProofRet(sc.bytes) # C_KZG_OK) =>
          /\ sc.pc = "returned"
          /\ sc.result.kind = "Err"
          /\ sc.result.code = BackendProofRet(sc.bytes)
          /\ sc.result.context = "compute proofs"

\* C12 as claimed: no blob is handed to the backend twice, and whenever the
\* backend returned a non-zero status for a blob, the operation returns an
\* error carrying that status and the operation context.
C12_BackendStatusCarried ==
    /\ NoRetryAndSingleCarriesStatus
    /\ \A b \in Batches : \A k \in 1..Len(delivered[b]) :
          \A ret \in FailedStatuses(b) :
              /\ delivered[b][k].kind = "Err"
              /\ delivered[b][k].code = ret
              /\ delivered[b][k].context = "compute proofs batch"

\* C12 amended: no blob is handed to the backend twice; a non-zero status
\* never results in a success value; the error a batch returns carries the
\* status of one of its failed blobs and the context, unless a worker of the
\* batch panicked, and then it is the error of the awaited task.
C12_BackendStatusNeverSuccess ==
    /\ NoRetryAndSingleCarriesStatus
    /\ \A b \in Batches : \A k \in 1..Len(delivered[b]) :
          FailedStatuses(b) # {} =>
              /\ delivered[b][k].kind = "Err"
              /\ delivered[b][k].data = <<>>
              /\ IF SomeonePanicked(b)
                 THEN delivered[b][k] = await_handle(Panicked)
                 ELSE /\ delivered[b][k].code \in FailedStatuses(b)
                      /\ delivered[b][k].context = "compute proofs batch"

\* C12 witness: compute_cell_proofs has returned the backend's status 1 as an
\* error, and a batch of a good and a bad blob, both computed, has returned it too.
C12_Witness ==
    /\ sc.call.st = "done"
    /\ sc.result.kind = "Err"
    /\ sc.result.code = 1
    /\ \E b \in Batches :
          /\ N(b) = 2
          /\ item[b][1].st = "done" /\ item[b][1].res.kind = "Ok"
          /\ item[b][2].st = "done" /\ item[b][2].res.kind = "Err"
          /\ Len(delivered[b]) = 1
          /\ delivered[b][1].code = 1

LoadedSetup == ld.result.data[1]

\* C14: once a wrapper exists its settings stay the value produced at load
\* through every call of compute_cell_proofs and compute_cell_proofs_batch,
\* and the settings the workers of every batch read are that value.
C14_SettingsNeverChange ==
    wrapper # "none" =>
        /\ ld.result.kind = "Ok"
        /\ wrapper = LoadedSetup
        /\ \A b \in Batches : Submitted(b) => settings[b] = LoadedSetup

\* The positions of batch b whose buffer fails the conversion into a Blob.
InvalidBlobs(b) == {i \in 1..N(b) : convert(blobs_bytes[b][i]).kind = "Err"}

LowestInvalid(b) == CHOOSE i \in InvalidBlobs(b) : \A j \in InvalidBlobs(b) : i <= j

\* C15: a batch holding buffers that fail validation ends with the validation
\* error of the one at the lowest position (of the only one, when there is
\* one); the buffers behind it are never converted, and no blob of the batch
\* is computed.
C15_LowestInvalidBlobFails ==
    \A b \in Batches :
        InvalidBlobs(b) # {} =>
            /\ validated[b] < LowestInvalid(b)
            /\ NothingStarted(b)
            /\ bpc[b] \in {"finished", "delivered"} =>
                  /\ validated[b] = LowestInvalid(b) - 1
                  /\ closure[b] = convert(blobs_bytes[b][LowestInvalid(b)])
            /\ \A k \in 1..Len(delivered[b]) :
                  delivered[b][k] = convert(blobs_bytes[b][LowestInvalid(b)])

\* C15 witness: a batch of two buffers of different wrong lengths has been
\* answered with the error of the first, the second never converted.
C15_Witness ==
    \E b \in Batches :
        /\ N(b) = 2
        /\ InvalidBlobs(b) = {1, 2}
        /\ blobs_bytes[b][1].len # blobs_bytes[b][2].len
        /\ Len(delivered[b]) = 1
        /\ delivered[b][1].kind = "Err"
        /\ delivered[b][1].detail = <<blobs_bytes[b][1].len>>
        /\ validated[b] = 0

\* C16: the factory hands out a wrapper or one error, never both: a wrapper
\* exists only when the size checks passed and the backend's load routine
\* returned status 0, and a non-zero status of the backend ends the call with
\* an error and without a wrapper.
C16_WrapperOrError ==
    /\ wrapper # "none" =>
          /\ SetupSizesOk(ld.g1m, ld.g1l, ld.g2m)
          /\ ld.ret = <<C_KZG_OK>>
          /\ ld.pc = "returned"
          /\ ld.result = Ok(<<wrapper>>)
    /\ ld.pc = "returned" =>
          /\ ld.result.kind \in {"Ok", "Err"}
          /\ ld.result.kind = "Err" => (wrapper = "none" /\ ld.result.data = <<>>)
          /\ ld.result.kind = "Ok" => wrapper # "none"
    /\ (ld.ret # <<>> /\ ld.ret # <<C_KZG_OK>>) =>
          /\ ld.pc = "returned"
          /\ ld.result.kind = "Err"
          /\ wrapper = "none"

\* C16 witness: the backend has read buffers of the sizes it was told and
\* returned a non-zero status; the factory returned an error and no wrapper.
C16_Witness ==
    /\ ld.pc = "returned"
    /\ LoadReadsInBounds(ld.args)
    /\ ld.backendCalls = 1
    /\ ld.ret = <<1>>
    /\ ld.result.kind = "Err"
    /\ wrapper = "none"

\* A worker of batch b fails with the status the backend returned on one of
\* the batch's own blobs.
OwnBackendErrors(b) ==
    {check_c_kzg_ret(BackendProofRet(blobs_bytes[b][i]), "compute proofs batch") :
        i \in {j \in 1..N(b) : BackendProofRet(blobs_bytes[b][j]) # C_KZG_OK}}

\* The outcomes batch b can have by its own blobs, the setup loaded into the
\* wrapper and a panic of one of its own workers.
OwnOutcomes(b) ==
    IF InvalidBlobs(b) # {} THEN {convert(blobs_bytes[b][LowestInvalid(b)])}
    ELSE IF SomeonePanicked(b) THEN {await_handle(Panicked)}
    ELSE IF OwnBackendErrors(b) # {} THEN OwnBackendErrors(b)
    ELSE {Ok([i \in 1..N(b) |-> proofs_to_hex(LoadedSetup, blobs_bytes[b][i], cell_count)])}

\* C17: with batches in flight side by side on one wrapper, what each batch
\* hands to its caller is determined by the setup and the batch's own blobs
\* (and a panic of its own workers), whatever the other batch holds or does.
C17_BatchesIndependent ==
    \A b \in Batches : \A k \in 1..Len(delivered[b]) : delivered[b][k] \in OwnOutcomes(b)

====
